---- MODULE Spec2Model ----
(***************************************************************************)
(* Hardware-topology discovery of libgalois (HWTopoLinux.cpp): the build   *)
(* pipeline makeHWTopo (parseCPUInfo, getNumaNode, markSMT, parseCPUSet,   *)
(* markValid, the counts and the renumbering), the lock-guarded cache      *)
(* getHWTopo and the affinity primitive bindThreadSelf.                    *)
(*                                                                         *)
(* SpecBuild runs one makeHWTopo step by step on every input of Inputs.    *)
(* Spec runs threads that call getHWTopo and bindThreadSelf concurrently.  *)
(***************************************************************************)
EXTENDS Integers, Sequences, FiniteSets, TLC

VARIABLES
    \* ---- one run of makeHWTopo (SpecBuild)
    input,      \* what the OS files hold: [cpuinfo, lines, status, numa]
    bpc,        \* position in makeHWTopo
    info,       \* std::vector<cpuinfo> info
    retMTI,     \* katana::MachineTopoInfo retMTI
    retTTI,     \* std::vector<katana::ThreadTopoInfo> retTTI
    shuffled,   \* history: std::partition left the valid records in another order
    \* ---- the process (Spec)
    alive,      \* FALSE once KATANA_SYS_DIE / an uncaught exception ended the process
    lock,       \* static SimpleLock lock: the thread holding it, or NoThread
    data,       \* static std::unique_ptr<HWTopoInfo> data: NoData or the topology
    pc,         \* each thread's position in getHWTopo
    ret,        \* the value each thread's last getHWTopo call returned
    builds,     \* how many times makeHWTopo has been run
    mask,       \* each thread's OS affinity mask
    lastBind,   \* each thread's last bindThreadSelf call: NoBind or [ctx, ok]
    affinity    \* whether the build defines KATANA_USE_SCHED_SETAFFINITY

buildVars == <<input, bpc, info, retMTI, retTTI, shuffled>>
procVars == <<alive, lock, data, pc, ret, builds, mask, lastBind, affinity>>
vars == <<input, bpc, info, retMTI, retTTI, shuffled,
          alive, lock, data, pc, ret, builds, mask, lastBind, affinity>>

----------------------------------------------------------------------------
\* Bounds of the model.

\* processors of a full machine description are 0 .. NumProcs-1
NumProcs == 4
\* number of lines of a free-form /proc/cpuinfo text
MaxLines == 3
\* threads of the process
NumThreads == 2

Range(s) == {s[i] : i \in DOMAIN s}
Max(a, b) == IF a >= b THEN a ELSE b

----------------------------------------------------------------------------
\* struct cpuinfo, value-initialised by vals.resize().

cpuinfo ==
    [proc |-> 0, physid |-> 0, sib |-> 0, coreid |-> 0, cpucores |-> 0,
     numaNode |-> 0, valid |-> FALSE, smt |-> FALSE]

\* operator<(const cpuinfo&, const cpuinfo&); false < true for the smt flag.
LessNoProc(lhs, rhs) ==
    IF lhs.smt # rhs.smt THEN (~lhs.smt /\ rhs.smt)
    ELSE IF lhs.physid # rhs.physid THEN lhs.physid < rhs.physid
    ELSE lhs.coreid < rhs.coreid

Less(lhs, rhs) ==
    IF lhs.smt # rhs.smt THEN (~lhs.smt /\ rhs.smt)
    ELSE IF lhs.physid # rhs.physid THEN lhs.physid < rhs.physid
    ELSE IF lhs.coreid # rhs.coreid THEN lhs.coreid < rhs.coreid
    ELSE lhs.proc < rhs.proc

\* std::sort(info.begin(), info.end()): every arrangement of the elements
\* that is ordered by operator< (std::sort is not stable).
RECURSIVE SortedOrders(_, _)
SortedOrders(s, S) ==
    IF S = {} THEN {<<>>}
    ELSE UNION { { <<s[m]>> \o rest : rest \in SortedOrders(s, S \ {m}) } :
                 m \in {i \in S : \A j \in S : ~Less(s[j], s[i])} }

StdSort(s) == SortedOrders(s, DOMAIN s)

----------------------------------------------------------------------------
\* getNumaNode: numa.avail is numaAvail after the one-time load; numa.nodeOf
\* is dynamic_numa_node_of_cpu. A negative node is KATANA_SYS_DIE.

NumaDies(c, numa) == numa.avail /\ numa.nodeOf[c.proc] < 0

getNumaNode(c, numa) ==
    IF ~numa.avail THEN c.physid ELSE numa.nodeOf[c.proc]

\* vals.resize(n)
Resize(vals, n) ==
    IF n <= Len(vals) THEN SubSeq(vals, 1, n)
    ELSE vals \o [i \in 1 .. (n - Len(vals)) |-> cpuinfo]

\* One iteration of the getline loop of parseCPUInfo. A line is <<key, num>>:
\* the sscanf pattern it matches and the integer read; key "other" matches none.
\* vals.at(cur) with cur = -1 throws std::out_of_range, which nothing catches.
ScanLine(st, line) ==
    LET key == line[1]
        num == line[2]
        at  == st.cur + 1
    IN  IF key = "processor"
        THEN [st EXCEPT !.cur = num,
                        !.vals = [Resize(st.vals, num + 1) EXCEPT ![num + 1].proc = num]]
        ELSE IF key = "other" THEN st
        ELSE IF st.cur = -1 THEN [st EXCEPT !.dead = TRUE]
        ELSE IF key = "physical id" THEN [st EXCEPT !.vals[at].physid = num]
        ELSE IF key = "siblings" THEN [st EXCEPT !.vals[at].sib = num]
        ELSE IF key = "core id" THEN [st EXCEPT !.vals[at].coreid = num]
        ELSE [st EXCEPT !.vals[at].cpucores = num]

RECURSIVE ReadLines(_, _)
ReadLines(lines, k) ==
    IF k = 0 THEN [vals |-> <<>>, cur |-> -1, dead |-> FALSE]
    ELSE LET st == ReadLines(lines, k - 1)
         IN  IF st.dead THEN st ELSE ScanLine(st, lines[k])

\* parseCPUInfo: [dead, vals]. dead: /proc/cpuinfo cannot be opened, at()
\* threw, or getNumaNode died.
parseCPUInfo(in) ==
    IF ~in.cpuinfo THEN [dead |-> TRUE, vals |-> <<>>]
    ELSE LET st == ReadLines(in.lines, Len(in.lines))
         IN  IF st.dead \/ \E i \in DOMAIN st.vals : NumaDies(st.vals[i], in.numa)
             THEN [dead |-> TRUE, vals |-> <<>>]
             ELSE [dead |-> FALSE,
                   vals |-> [i \in DOMAIN st.vals |->
                               [st.vals[i] EXCEPT
                                  !.numaNode = getNumaNode(st.vals[i], in.numa)]]]

----------------------------------------------------------------------------
countSocketsPerCore(s) ==
    Cardinality({<<s[i].physid, s[i].coreid>> : i \in DOMAIN s})

countSockets(s) == Cardinality({s[i].physid : i \in DOMAIN s})

countCores(s) == Cardinality({<<s[i].physid, s[i].coreid>> : i \in DOMAIN s})

countNumaNodes(s) == Cardinality({s[i].numaNode : i \in DOMAIN s})

\* markSMT: info[0].smt is left as it is.
markSMT(s) ==
    [i \in DOMAIN s |->
        IF i = 1 THEN s[i]
        ELSE [s[i] EXCEPT !.smt = (s[i - 1].physid = s[i].physid /\
                                   s[i - 1].coreid = s[i].coreid)]]

\* parseCPUSet. status.open: /proc/self/status can be opened; status.found:
\* it has a Cpus_allowed_list: line; status.list: what katana::parseCPUList
\* returns for the rest of that line.
parseCPUSet(status) ==
    IF ~status.open THEN <<>>
    ELSE IF ~status.found THEN <<>>
    ELSE status.list

\* std::sort on the vector<int>
RECURSIVE SortInts(_)
SortInts(v) ==
    IF v = <<>> THEN <<>>
    ELSE LET m == CHOOSE i \in DOMAIN v : \A j \in DOMAIN v : v[i] <= v[j]
         IN  <<v[m]>> \o SortInts([i \in 1 .. (Len(v) - 1) |->
                                      IF i < m THEN v[i] ELSE v[i + 1]])

\* std::binary_search(v.begin(), v.end(), x) on positions lo .. hi-1 (1-based)
RECURSIVE BinarySearch(_, _, _, _)
BinarySearch(v, x, lo, hi) ==
    IF lo >= hi THEN FALSE
    ELSE LET mid == lo + ((hi - lo) \div 2)
         IN  IF v[mid] = x THEN TRUE
             ELSE IF v[mid] < x THEN BinarySearch(v, x, mid + 1, hi)
             ELSE BinarySearch(v, x, lo, mid)

markValid(s, status) ==
    LET v == parseCPUSet(status)
    IN  IF v = <<>> THEN [i \in DOMAIN s |-> [s[i] EXCEPT !.valid = TRUE]]
        ELSE LET sv == SortInts(v)
             IN  [i \in DOMAIN s |->
                    [s[i] EXCEPT !.valid = BinarySearch(sv, s[i].proc, 1, Len(sv) + 1)]]

\* info.erase(std::partition(..., c.valid), info.end()): the valid elements,
\* in an order std::partition does not specify.
RECURSIVE Orders(_, _)
Orders(s, S) ==
    IF S = {} THEN {<<>>}
    ELSE UNION { { <<s[m]>> \o rest : rest \in Orders(s, S \ {m}) } : m \in S }

PartitionErase(s) == Orders(s, {i \in DOMAIN s : s[i].valid})

\* the valid elements in the order they had (what std::stable_partition leaves)
RECURSIVE StablePartition(_)
StablePartition(s) ==
    IF s = <<>> THEN <<>>
    ELSE IF Head(s).valid THEN <<Head(s)>> \o StablePartition(Tail(s))
    ELSE StablePartition(Tail(s))

----------------------------------------------------------------------------
\* The renumbering loop of makeHWTopo.

\* std::set<unsigned> as its iteration order
RECURSIVE SetSeq(_)
SetSeq(S) ==
    IF S = {} THEN <<>>
    ELSE LET m == CHOOSE x \in S : \A y \in S : x <= y
         IN  <<m>> \o SetSeq(S \ {m})

\* std::distance(set.begin(), set.find(x))
Distance(q, x) == (CHOOSE i \in DOMAIN q : q[i] = x) - 1

\* the position of the first element of s with the package id pid
Leader(s, pid) == (CHOOSE i \in DOMAIN s :
                      s[i].physid = pid /\ \A j \in 1 .. (i - 1) : s[j].physid # pid) - 1

RECURSIVE Mid(_, _, _)
Mid(s, sockets, i) ==
    IF i = 0 THEN 0
    ELSE Max(Mid(s, sockets, i - 1), Distance(sockets, s[i].physid))

\* the ids of s in the order a left-to-right scan first meets them
RECURSIVE FirstSeen(_, _)
FirstSeen(ids, k) ==
    IF k = 0 THEN <<>>
    ELSE LET q == FirstSeen(ids, k - 1)
         IN  IF ids[k] \in Range(q) THEN q ELSE Append(q, ids[k])

SocketsInScanOrder(s) ==
    FirstSeen([i \in DOMAIN s |-> s[i].physid], Len(s))

\* std::set<unsigned> sockets, filled by the first loop
Sockets(s) == SetSeq({s[i].physid : i \in DOMAIN s})

\* std::set<unsigned> numaNodes, filled by the first loop
NumaNodes(s) == SetSeq({s[i].numaNode : i \in DOMAIN s})

Renumber(s) ==
    LET sockets   == Sockets(s)
        numaNodes == NumaNodes(s)
    IN  [i \in DOMAIN s |->
            [tid                 |-> i - 1,
             socketLeader        |-> Leader(s, s[i].physid),
             socket              |-> Distance(sockets, s[i].physid),
             numaNode            |-> Distance(numaNodes, s[i].numaNode),
             cumulativeMaxSocket |-> Mid(s, sockets, i),
             osContext           |-> s[i].proc,
             osNumaNode          |-> s[i].numaNode]]

MachineTopo(s) ==
    [maxSockets   |-> countSockets(s),
     maxThreads   |-> Len(s),
     maxCores     |-> countCores(s),
     maxNumaNodes |-> countNumaNodes(s)]

NoMTI == [maxSockets |-> 0, maxThreads |-> 0, maxCores |-> 0, maxNumaNodes |-> 0]

\* Every HWTopoInfo makeHWTopo can return on the parsed records vals.
makeHWTopoFrom(vals, status) ==
    UNION { UNION { { [machineTopoInfo |-> MachineTopo(markSMT(s2)),
                       threadTopoInfo  |-> Renumber(markSMT(s2))] :
                      s2 \in StdSort(p) } :
                    p \in PartitionErase(markValid(markSMT(s1), status)) } :
            s1 \in StdSort(vals) }

----------------------------------------------------------------------------
\* What the OS files can hold.

\* (package id, core id) of a processor of a full machine description
Slots == {<<0, 0>>, <<0, 1>>, <<1, 0>>}

Procs == 0 .. (NumProcs - 1)

\* machine m (processor -> slot, for processors 0 .. n-1) as /proc/cpuinfo
\* prints it
MachineLines(m) ==
    [k \in 1 .. (3 * Cardinality(DOMAIN m)) |->
        LET p == (k - 1) \div 3
            f == (k - 1) % 3
        IN  IF f = 0 THEN <<"processor", p>>
            ELSE IF f = 1 THEN <<"physical id", m[p][1]>>
            ELSE <<"core id", m[p][2]>>]

\* the elements of S, largest first
RECURSIVE Descending(_)
Descending(S) ==
    IF S = {} THEN <<>>
    ELSE LET m == CHOOSE x \in S : \A y \in S : y <= x
         IN  <<m>> \o Descending(S \ {m})

Unopenable == [open |-> FALSE, found |-> FALSE, list |-> <<>>]
Absent == [open |-> TRUE, found |-> FALSE, list |-> <<>>]
Statuses ==
    {Unopenable, Absent} \cup
    {[open |-> TRUE, found |-> TRUE, list |-> Descending(S)] : S \in SUBSET Procs}

NoNuma == [avail |-> FALSE, nodeOf |-> [p \in 0 .. NumProcs |-> 0]]
Numa == [avail |-> TRUE, nodeOf |-> [p \in 0 .. NumProcs |-> (p + 1) % 2]]
BrokenNuma == [avail |-> TRUE, nodeOf |-> [p \in 0 .. NumProcs |-> 0 - 1]]

FullInputs ==
    {[cpuinfo |-> TRUE, lines |-> MachineLines(m), status |-> st, numa |-> nu] :
        m \in [Procs -> Slots], st \in Statuses, nu \in {NoNuma, Numa}}

\* the lines of a free-form text
TextLines ==
    {<<"processor", 0>>, <<"processor", 2>>, <<"physical id", 0>>,
     <<"physical id", 1>>, <<"siblings", 2>>, <<"core id", 1>>,
     <<"cpu cores", 1>>, <<"other", 0>>}

\* /proc/cpuinfo lists its processors in increasing order
\* (KATANA_LOG_DEBUG_ASSERT(cur < num))
Increasing(t) ==
    \A i, j \in DOMAIN t :
        (i < j /\ t[i][1] = "processor" /\ t[j][1] = "processor") => t[i][2] < t[j][2]

Texts ==
    {t \in UNION {[1 .. n -> TextLines] : n \in 0 .. MaxLines} : Increasing(t)}

TextInputs ==
    {[cpuinfo |-> TRUE, lines |-> t, status |-> Absent, numa |-> NoNuma] : t \in Texts}

SpecialInputs ==
    {[cpuinfo |-> FALSE, lines |-> <<>>, status |-> Absent, numa |-> NoNuma],
     [cpuinfo |-> TRUE, lines |-> <<<<"processor", 0>>>>, status |-> Absent,
      numa |-> BrokenNuma]}

Inputs == FullInputs \cup TextInputs \cup SpecialInputs

----------------------------------------------------------------------------
\* The process before any call.

Threads == 1 .. NumThreads
NoThread == 0
NoData == [built |-> FALSE, machineTopoInfo |-> NoMTI, threadTopoInfo |-> <<>>]
NoBind == [called |-> FALSE, ctx |-> 0, ok |-> FALSE]

\* hardware contexts of the OS, and the identifiers passed to bindThreadSelf
OsCpus == {0, 1}
Contexts == {0, 1, 2}
NoInput == [cpuinfo |-> FALSE, lines |-> <<>>, status |-> Unopenable, numa |-> NoNuma]

ProcInit ==
    /\ alive = TRUE
    /\ lock = NoThread
    /\ data = NoData
    /\ pc = [t \in Threads |-> "idle"]
    /\ ret = [t \in Threads |-> NoData]
    /\ builds = 0
    /\ mask = [t \in Threads |-> OsCpus]
    /\ lastBind = [t \in Threads |-> NoBind]
    /\ affinity = TRUE

----------------------------------------------------------------------------
\* makeHWTopo, step by step.

BuildInit ==
    /\ input \in Inputs
    /\ bpc = "start"
    /\ info = <<>>
    /\ retMTI = NoMTI
    /\ retTTI = <<>>
    /\ shuffled = FALSE
    /\ ProcInit

\* auto info = parseCPUInfo();
ParseCPUInfo ==
    /\ bpc = "start"
    /\ LET r == parseCPUInfo(input)
       IN  /\ bpc' = IF r.dead THEN "dead" ELSE "parsed"
           /\ info' = r.vals
    /\ UNCHANGED <<input, retMTI, retTTI, shuffled>>
    /\ UNCHANGED procVars

\* std::sort(info.begin(), info.end()); markSMT(info);  (both times)
SortMarkSMT ==
    /\ bpc \in {"parsed", "partitioned"}
    /\ \E s \in StdSort(info) : info' = markSMT(s)
    /\ bpc' = IF bpc = "parsed" THEN "marked" ELSE "remarked"
    /\ UNCHANGED <<input, retMTI, retTTI, shuffled>>
    /\ UNCHANGED procVars

\* markValid(info);
MarkValid ==
    /\ bpc = "marked"
    /\ info' = markValid(info, input.status)
    /\ bpc' = "validated"
    /\ UNCHANGED <<input, retMTI, retTTI, shuffled>>
    /\ UNCHANGED procVars

\* info.erase(std::partition(...), info.end());
Partition ==
    /\ bpc = "validated"
    /\ \E p \in PartitionErase(info) :
          /\ info' = p
          /\ shuffled' = (p # StablePartition(info))
    /\ bpc' = "partitioned"
    /\ UNCHANGED <<input, retMTI, retTTI>>
    /\ UNCHANGED procVars

\* the counts and the renumbering loop
Finish ==
    /\ bpc = "remarked"
    /\ retMTI' = MachineTopo(info)
    /\ retTTI' = Renumber(info)
    /\ bpc' = "done"
    /\ UNCHANGED <<input, info, shuffled>>
    /\ UNCHANGED procVars

BuildNext ==
    \/ ParseCPUInfo
    \/ SortMarkSMT
    \/ MarkValid
    \/ Partition
    \/ Finish

SpecBuild == BuildInit /\ [][BuildNext]_vars

----------------------------------------------------------------------------
\* The process: threads calling getHWTopo and bindThreadSelf.

\* (package id, core id) layouts of the machines the process may run on
EnvMachines ==
    {[p \in OsCpus |-> <<0, 0>>], [p \in OsCpus |-> <<p, 0>>]}

\* what the OS files hold when a build reads them
EnvInputs ==
    {[cpuinfo |-> TRUE, lines |-> MachineLines(m), status |-> st, numa |-> NoNuma] :
        m \in EnvMachines,
        st \in {Absent, [open |-> TRUE, found |-> TRUE, list |-> <<0>>]}}
    \cup {[cpuinfo |-> FALSE, lines |-> <<>>, status |-> Absent, numa |-> NoNuma]}

Init ==
    /\ input = NoInput
    /\ bpc = "start"
    /\ info = <<>>
    /\ retMTI = NoMTI
    /\ retTTI = <<>>
    /\ shuffled = FALSE
    /\ alive = TRUE
    /\ lock = NoThread
    /\ data = NoData
    /\ pc = [t \in Threads |-> "idle"]
    /\ ret = [t \in Threads |-> NoData]
    /\ builds = 0
    /\ mask = [t \in Threads |-> OsCpus]
    /\ lastBind = [t \in Threads |-> NoBind]
    /\ affinity \in BOOLEAN

\* SimpleLock::lock() returns only when no thread holds the lock
LockAlwaysFree(l) == TRUE

LockFree(l) == l = NoThread

\* if (!data)
AlwaysBuild(d) == TRUE

NeedsBuild(d) == ~d.built

\* std::lock_guard<SimpleLock> guard(lock);
Acquire(t) ==
    /\ alive
    /\ pc[t] = "idle"
    /\ LockFree(lock)
    /\ lock' = t
    /\ pc' = [pc EXCEPT ![t] = "locked"]
    /\ UNCHANGED <<alive, data, ret, builds, mask, lastBind, affinity>>
    /\ UNCHANGED buildVars

\* if (!data)
CheckData(t) ==
    /\ alive
    /\ pc[t] = "locked"
    /\ pc' = [pc EXCEPT ![t] = IF NeedsBuild(data) THEN "build" ELSE "copy"]
    /\ UNCHANGED <<alive, lock, data, ret, builds, mask, lastBind, affinity>>
    /\ UNCHANGED buildVars

\* data = std::make_unique<HWTopoInfo>(makeHWTopo());
Build(t) ==
    /\ alive
    /\ pc[t] = "build"
    /\ builds' = builds + 1
    /\ \E in \in EnvInputs :
          LET r == parseCPUInfo(in)
          IN  /\ input' = in
              /\ IF r.dead
                 THEN /\ alive' = FALSE
                      /\ UNCHANGED <<data, pc>>
                 ELSE /\ \E topo \in makeHWTopoFrom(r.vals, in.status) :
                            data' = [built |-> TRUE,
                                     machineTopoInfo |-> topo.machineTopoInfo,
                                     threadTopoInfo |-> topo.threadTopoInfo]
                      /\ pc' = [pc EXCEPT ![t] = "copy"]
                      /\ UNCHANGED alive
    /\ UNCHANGED <<lock, ret, mask, lastBind, affinity>>
    /\ UNCHANGED <<bpc, info, retMTI, retTTI, shuffled>>

\* return *data;  and the guard's destructor
Return(t) ==
    /\ alive
    /\ pc[t] = "copy"
    /\ ret' = [ret EXCEPT ![t] = data]
    /\ lock' = NoThread
    /\ pc' = [pc EXCEPT ![t] = "idle"]
    /\ UNCHANGED <<alive, data, builds, mask, lastBind, affinity>>
    /\ UNCHANGED buildVars

\* sched_setaffinity(pid, ...) with pid = 0 acts on the calling thread
WholeProcess(t) == Threads

AffinityTargets(t) == {t}

\* sched_setaffinity returns 0 when the mask names a hardware context of the OS
SchedSetAffinity(ctx) == ctx \in OsCpus

bindThreadSelf(t, osContext) ==
    /\ alive
    /\ pc[t] = "idle"
    /\ IF affinity /\ SchedSetAffinity(osContext)
       THEN /\ mask' = [u \in Threads |->
                          IF u \in AffinityTargets(t) THEN {osContext} ELSE mask[u]]
            /\ lastBind' = [lastBind EXCEPT
                              ![t] = [called |-> TRUE, ctx |-> osContext, ok |-> TRUE]]
       ELSE /\ mask' = mask
            /\ lastBind' = [lastBind EXCEPT
                              ![t] = [called |-> TRUE, ctx |-> osContext, ok |-> FALSE]]
    /\ UNCHANGED <<alive, lock, data, pc, ret, builds, affinity>>
    /\ UNCHANGED buildVars

Next ==
    \E t \in Threads :
        \/ Acquire(t)
        \/ CheckData(t)
        \/ Build(t)
        \/ Return(t)
        \/ \E c \in Contexts : bindThreadSelf(t, c)

Spec == Init /\ [][Next]_vars

----------------------------------------------------------------------------
\* Properties of getHWTopo and bindThreadSelf (Spec).

\* the records parsed from the files the build read
Parsed == parseCPUInfo(input).vals

\* the build when std::sort and std::partition are replaced by one fixed
\* choice each (a stable partition)
RefOrder ==
    LET s1 == markSMT(CHOOSE s \in StdSort(Parsed) : TRUE)
        p  == StablePartition(markValid(s1, input.status))
    IN  markSMT(CHOOSE s \in StdSort(p) : TRUE)

\* C1: in every interleaving makeHWTopo is run at most once, and exactly once
\* when a topology is cached; the thread in getHWTopo past the lock_guard
\* holds the lock, and a thread about to build found the cache empty.
C1_BuiltOnce ==
    /\ builds <= 1
    /\ (data.built => builds = 1)
    /\ \A t \in Threads : pc[t] # "idle" => lock = t
    /\ \A t \in Threads : (alive /\ pc[t] = "build") => (~data.built /\ builds = 0)

\* every thread has had the topology returned and a later call is past the
\* check without building
C1_Witness ==
    /\ builds = 1
    /\ \A t \in Threads : ret[t].built
    /\ \E t \in Threads : pc[t] = "copy"

\* C2: every value getHWTopo has returned is the cached topology, which is
\* the complete result of makeHWTopo (all counts, all thread records in their
\* order) on the files the build read; all returned values are equal, and no
\* thread reaches the copy with an empty cache.
C2_SameCompleteTopology ==
    /\ \A t \in Threads : pc[t] = "copy" => data.built
    /\ data.built =>
          /\ data.machineTopoInfo = MachineTopo(RefOrder)
          /\ data.threadTopoInfo = Renumber(RefOrder)
    /\ \A t \in Threads :
          ret[t] # NoData =>
            /\ ret[t] = data
            /\ ret[t].built
            /\ Len(ret[t].threadTopoInfo) = ret[t].machineTopoInfo.maxThreads
            /\ \A u \in Threads : ret[u] # NoData => ret[u] = ret[t]

\* every thread holds a returned copy of a two-package topology
C2_Witness ==
    /\ \A t \in Threads : ret[t].built
    /\ data.machineTopoInfo.maxSockets = 2
    /\ data.machineTopoInfo.maxThreads = Cardinality(OsCpus)

\* C8: a bindThreadSelf call by t (a step that changes lastBind[t]) returns
\* true exactly when the build supports affinity and the OS call succeeds;
\* then t's mask is {osContext}, otherwise t's mask is unchanged; the masks
\* of the other threads, the cached topology and the values returned from it
\* are unchanged and the process stays alive. No other step changes a mask.
C8_BindFrame ==
    [][\A t \in Threads :
         /\ (lastBind'[t] # lastBind[t]) =>
               /\ lastBind'[t].called
               /\ lastBind'[t].ok = (affinity /\ lastBind'[t].ctx \in OsCpus)
               /\ (lastBind'[t].ok => mask'[t] = {lastBind'[t].ctx})
               /\ (~lastBind'[t].ok => mask'[t] = mask[t])
               /\ \A u \in Threads \ {t} : mask'[u] = mask[u]
               /\ data' = data
               /\ ret' = ret
               /\ alive'
         /\ (mask'[t] # mask[t]) => (lastBind'[t] # lastBind[t])
      ]_vars

\* with a topology cached, one thread is bound to the context it asked for
\* and another thread's failed call left its mask as it was
C8_Witness ==
    /\ data.built
    /\ \E t, u \in Threads :
          /\ t # u
          /\ lastBind[t].ok /\ mask[t] = {lastBind[t].ctx}
          /\ lastBind[u].called /\ ~lastBind[u].ok /\ mask[u] = OsCpus

----------------------------------------------------------------------------
\* Properties of makeHWTopo (SpecBuild).

\* some parsed record was removed by the allowed set
SomeExcluded == Len(info) < Len(Parsed)

Core(c) == <<c.physid, c.coreid>>

PhysIds == [i \in DOMAIN info |-> info[i].physid]
NumaIds == [i \in DOMAIN info |-> info[i].numaNode]

\* the number of ids of S below x
NumericRank(S, x) == Cardinality({y \in S : y < x})

\* C3 (as stated): the package rank and the NUMA rank of a thread are the
\* position of first occurrence of its id in a scan of the final order.
C3_ScanOrderRanks ==
    bpc = "done" =>
        \A i \in DOMAIN retTTI :
            /\ retTTI[i].socket =
                  Distance(FirstSeen(PhysIds, Len(info)), info[i].physid)
            /\ retTTI[i].numaNode =
                  Distance(FirstSeen(NumaIds, Len(info)), info[i].numaNode)

\* C3 (amended): the package rank of a thread is the number of distinct
\* package ids of the surviving records that are numerically below its own,
\* and its NUMA rank the number of distinct NUMA node ids below its own.
C3_NumericRanks ==
    bpc = "done" =>
        /\ Len(retTTI) = Len(info)
        /\ \A i \in DOMAIN retTTI :
              /\ retTTI[i].osContext = info[i].proc
              /\ retTTI[i].osNumaNode = info[i].numaNode
              /\ retTTI[i].socket = NumericRank(Range(PhysIds), info[i].physid)
              /\ retTTI[i].numaNode = NumericRank(Range(NumaIds), info[i].numaNode)

\* a build that excluded a processor and whose final order meets the package
\* ids in an order that is not their numeric order
C3_Witness ==
    /\ bpc = "done"
    /\ SomeExcluded
    /\ FirstSeen(PhysIds, Len(info)) # Sockets(info)
    /\ \E i \in DOMAIN retTTI : retTTI[i].socket = 1 /\ retTTI[i].tid = 0

\* C4: after a build that excluded some processor, a surviving record whose
\* (package id, core id) no other surviving record shares has its SMT flag false.
C4_LoneSurvivorNotSMT ==
    (bpc \in {"remarked", "done"} /\ SomeExcluded) =>
        \A i \in DOMAIN info :
            (\A j \in DOMAIN info : j # i => Core(info[j]) # Core(info[i]))
                => ~info[i].smt

\* C5: when the Cpus_allowed_list line is found, a record is valid iff its
\* processor id is in the parsed list, the thread records are exactly the
\* member processors, and no member means an empty topology.
C5_ValidIffMember ==
    (input.status.open /\ input.status.found) =>
        LET members == {i \in DOMAIN Parsed :
                          Parsed[i].proc \in Range(input.status.list)}
        IN  /\ bpc = "validated" =>
                  \A i \in DOMAIN info :
                      info[i].valid <=> (info[i].proc \in Range(input.status.list))
            /\ bpc = "done" =>
                  /\ {retTTI[i].osContext : i \in DOMAIN retTTI}
                        = {Parsed[i].proc : i \in members}
                  /\ retMTI.maxThreads = Cardinality(members)
                  /\ (members = {} => (retTTI = <<>> /\ retMTI = NoMTI))

\* the processor lines of a text, the end of the block a processor line
\* opens, and the last value a key has in that block (0 when it has none)
ProcessorLines(lines) == {k \in DOMAIN lines : lines[k][1] = "processor"}

BlockEnd(lines, k) ==
    LET later == {j \in ProcessorLines(lines) : j > k}
    IN  IF later = {} THEN Len(lines) + 1
        ELSE CHOOSE j \in later : \A h \in later : j <= h

LastSeen(lines, k, key) ==
    LET ks == {j \in (k + 1) .. (BlockEnd(lines, k) - 1) : lines[j][1] = key}
    IN  IF ks = {} THEN 0
        ELSE lines[CHOOSE j \in ks : \A h \in ks : h <= j][2]

\* C6: parseCPUInfo returns as many records as the text has distinct
\* processor lines, one per processor line, holding the last value seen for
\* each field before the next processor line.
C6_RecordPerProcessorLine ==
    bpc = "parsed" =>
        LET lines == input.lines
        IN  /\ Len(info) =
                  Cardinality({lines[k][2] : k \in ProcessorLines(lines)})
            /\ \A k \in ProcessorLines(lines) :
                  \E i \in DOMAIN info :
                      /\ info[i].proc = lines[k][2]
                      /\ info[i].physid = LastSeen(lines, k, "physical id")
                      /\ info[i].sib = LastSeen(lines, k, "siblings")
                      /\ info[i].coreid = LastSeen(lines, k, "core id")
                      /\ info[i].cpucores = LastSeen(lines, k, "cpu cores")

\* C7: the compact thread ids are 0 .. maxThreads-1 in sequence order, and
\* package id -> package rank and NUMA node id -> NUMA rank are bijections
\* from the ids of the surviving records onto 0 .. maxSockets-1 and
\* 0 .. maxNumaNodes-1.
C7_CompactIdsAndRanks ==
    bpc = "done" =>
        /\ Len(retTTI) = retMTI.maxThreads
        /\ Len(retTTI) = Len(info)
        /\ \A i \in DOMAIN retTTI : retTTI[i].tid = i - 1
        /\ \A i, j \in DOMAIN retTTI :
              /\ (info[i].physid = info[j].physid)
                    <=> (retTTI[i].socket = retTTI[j].socket)
              /\ (info[i].numaNode = info[j].numaNode)
                    <=> (retTTI[i].numaNode = retTTI[j].numaNode)
        /\ {retTTI[i].socket : i \in DOMAIN retTTI} = 0 .. (retMTI.maxSockets - 1)
        /\ {retTTI[i].numaNode : i \in DOMAIN retTTI}
              = 0 .. (retMTI.maxNumaNodes - 1)

\* a filtered build with two packages, two NUMA nodes and SMT siblings
C7_Witness ==
    /\ bpc = "done"
    /\ SomeExcluded
    /\ retMTI.maxSockets = 2
    /\ retMTI.maxNumaNodes = 2
    /\ retMTI.maxCores < retMTI.maxThreads
    /\ \E i \in DOMAIN info : Parsed[i].physid # Parsed[i].numaNode

\* C9: the thread records and the counts of a finished build are those of
\* the reference build on the same input, whatever order the partition
\* step left the valid records in.
C9_DeterministicOrder ==
    bpc = "done" =>
        /\ retTTI = Renumber(RefOrder)
        /\ retMTI = MachineTopo(RefOrder)

\* a finished build of three or more threads, with SMT siblings, whose
\* partition step left the valid records in another order than they had
C9_Witness ==
    /\ bpc = "done"
    /\ shuffled
    /\ Len(retTTI) >= 3
    /\ retMTI.maxCores < retMTI.maxThreads

\* C10: the first maxCores records of the final order lie on pairwise
\* distinct (package id, core id) pairs.
C10_CoresBeforeSiblings ==
    bpc = "done" =>
        \A i, j \in 1 .. retMTI.maxCores :
            i < j => Core(info[i]) # Core(info[j])

====
